---------------------------- MODULE Spec2Model ----------------------------
(***************************************************************************)
(* Model of the wsen-tids driver (src/wsen-tids/src/lib.rs): a register-   *)
(* level driver of a temperature sensor behind an embedded-hal I2c bus.    *)
(*                                                                         *)
(* The driver's arithmetic is IEEE-754 binary32 (Rust f32).  A binary32    *)
(* value is modelled as a record [s, m, e] standing for                    *)
(* (-1)^s * m * 2^e, with m = 0 (zero) or 2^23 <= m < 2^24 (a normal       *)
(* number).  Every operation rounds to nearest, ties to even, as the       *)
(* hardware (or soft-float library) does.  Subnormals, infinities and NaN  *)
(* do not arise for the inputs the model draws and are not represented.    *)
(* All intermediate integers stay below 2^31.                              *)
(***************************************************************************)
EXTENDS Integers, Sequences, FiniteSets, TLC

\* ------------------------------------------------------------------------
\* binary32 arithmetic
\* ------------------------------------------------------------------------

Hidden == 2^23          \* the hidden bit: normal significands are Hidden .. 2*Hidden-1
Carry  == 2^24

F32Zero == [s |-> 0, m |-> 0, e |-> 0]

\* (q + f) * 2^e with 2^24 <= q < 2^25 and 0 <= f < 1 (sticky <=> f # 0),
\* rounded to 24 bits, nearest, ties to even.
RoundNearestEven(s, q, sticky, e) ==
    LET m0 == q \div 2
        g  == q % 2
        up == g = 1 /\ (sticky \/ m0 % 2 = 1)
        m1 == IF up THEN m0 + 1 ELSE m0
    IN  IF m1 = Carry THEN [s |-> s, m |-> Hidden, e |-> e + 2]
                      ELSE [s |-> s, m |-> m1, e |-> e + 1]

\* (q + r/d) * 2^e with 0 <= r < d, q + r/d > 0, q < 2^25: shift-and-subtract
\* long division until 25 quotient bits are known, then round.
RECURSIVE LongDiv(_, _, _, _, _)
LongDiv(s, q, r, d, e) ==
    IF q >= Carry
    THEN RoundNearestEven(s, q, r # 0, e)
    ELSE LET r2  == 2 * r
             bit == IF r2 >= d THEN 1 ELSE 0
         IN  LongDiv(s, 2 * q + bit, r2 - bit * d, d, e - 1)

\* The binary32 nearest to the decimal num/den (den > 0): what the compiler
\* makes of a decimal literal.
F32FromDec(num, den) ==
    LET a == IF num < 0 THEN -num ELSE num
        s == IF num < 0 THEN 1 ELSE 0
    IN  IF a = 0 THEN F32Zero
        ELSE LongDiv(s, a \div den, a % den, den, 0)

\* x / y, y # 0.
F32Div(x, y) ==
    LET s == (x.s + y.s) % 2
    IN  IF x.m = 0 THEN [s |-> s, m |-> 0, e |-> 0]
        ELSE LongDiv(s, x.m \div y.m, x.m % y.m, y.m, x.e - y.e)

\* n shifted right by k bits, the bits shifted out OR-ed into the lowest bit
\* kept (the sticky bit).
ShiftRightSticky(n, k) ==
    IF k >= 30 THEN (IF n # 0 THEN 1 ELSE 0)
    ELSE LET p == 2^k
             q == n \div p
         IN  IF n % p # 0 /\ q % 2 = 0 THEN q + 1 ELSE q

\* v * 2^e, v > 0 carrying three extra low bits (guard, round, sticky):
\* normalise to 2^26 <= v < 2^27, then round to 24 bits.
RECURSIVE NormRound(_, _, _)
NormRound(s, v, e) ==
    IF v >= 2^27 THEN NormRound(s, ShiftRightSticky(v, 1), e + 1)
    ELSE IF v < 2^26 THEN NormRound(s, 2 * v, e - 1)
    ELSE LET q      == v \div 4
             sticky == v % 4 # 0
         IN  RoundNearestEven(s, q, sticky, e + 2)

F32MagLess(x, y) ==
    IF x.m = 0 THEN y.m # 0
    ELSE IF y.m = 0 THEN FALSE
    ELSE x.e < y.e \/ (x.e = y.e /\ x.m < y.m)

\* x + y
F32Add(x, y) ==
    IF x.m = 0 THEN y
    ELSE IF y.m = 0 THEN x
    ELSE LET a == IF F32MagLess(x, y) THEN y ELSE x      \* larger magnitude
             b == IF F32MagLess(x, y) THEN x ELSE y
             A == 8 * a.m
             B == ShiftRightSticky(8 * b.m, a.e - b.e)
             v == IF a.s = b.s THEN A + B ELSE A - B
         IN  IF v = 0 THEN F32Zero ELSE NormRound(a.s, v, a.e - 3)

\* x * y by 12-bit limbs: the 48-bit product is H * 2^24 + L.
F32Mul(x, y) ==
    LET s   == (x.s + y.s) % 2
        x1  == x.m \div 4096
        x0  == x.m % 4096
        y1  == y.m \div 4096
        y0  == y.m % 4096
        mid == x1 * y0 + x0 * y1
        t   == (mid % 4096) * 4096 + x0 * y0
        L   == t % Carry
        H   == x1 * y1 + mid \div 4096 + t \div Carry
    IN  IF x.m = 0 \/ y.m = 0 THEN [s |-> s, m |-> 0, e |-> 0]
        ELSE IF H >= Hidden
        THEN RoundNearestEven(s, 2 * H + L \div Hidden, L % Hidden # 0,
                              x.e + y.e + 23)
        ELSE RoundNearestEven(s, 4 * H + L \div (Hidden \div 2),
                              L % (Hidden \div 2) # 0, x.e + y.e + 22)

\* An unsigned integer n < 2^24 as binary32 (exact): `n as f32`.
RECURSIVE Normalise(_, _, _)
Normalise(s, m, e) ==
    IF m = 0 THEN F32Zero
    ELSE IF m < Hidden THEN Normalise(s, 2 * m, e - 1)
    ELSE [s |-> s, m |-> m, e |-> e]

F32FromInt(n) == IF n < 0 THEN Normalise(1, -n, 0) ELSE Normalise(0, n, 0)

\* The magnitude of x truncated to an integer, capped at cap (cap < 2^23).
TruncMag(x, cap) ==
    IF x.m = 0 THEN 0
    ELSE IF x.e >= 0 THEN cap
    ELSE IF -x.e >= 24 THEN 0
    ELSE LET i == x.m \div (2^(-x.e)) IN IF i > cap THEN cap ELSE i

\* Variant: a cast that rounds to the nearest integer instead of truncating.
F32ToU8_Nearest(x) ==
    IF x.s = 1 \/ x.m = 0 THEN 0
    ELSE IF x.e >= 0 THEN 255
    ELSE IF -x.e >= 25 THEN 0
    ELSE LET p == 2^(-x.e)
             i == x.m \div p + (IF 2 * (x.m % p) >= p THEN 1 ELSE 0)
         IN  IF i > 255 THEN 255 ELSE i

\* Variant: a cast that keeps the low eight bits of the truncated integer
\* (two's complement wrap-around) instead of saturating.
F32ToU8_Wrapping(x) ==
    LET t == TruncMag(x, 2^23 - 1)
    IN  IF x.s = 1 THEN (256 - (t % 256)) % 256 ELSE t % 256

\* `x as u8`: truncates toward zero and saturates at the bounds of u8
\* (Rust's float-to-integer cast).
F32ToU8(x) == IF x.s = 1 THEN 0 ELSE TruncMag(x, 255)

\* ------------------------------------------------------------------------
\* u16 bit operations
\* ------------------------------------------------------------------------

\* x << k on u16
Shl16(x, k) == (x * 2^k) % 65536

\* x | y, bit by bit
RECURSIVE BitOr(_, _)
BitOr(x, y) ==
    IF x = 0 THEN y
    ELSE IF y = 0 THEN x
    ELSE (IF x % 2 = 1 \/ y % 2 = 1 THEN 1 ELSE 0) + 2 * BitOr(x \div 2, y \div 2)

\* ------------------------------------------------------------------------
\* lib.rs: constants and types
\* ------------------------------------------------------------------------

AddressSelect == [High |-> 56, Low |-> 63]      \* 0b0111000, 0b0111111

REG_DEVICE_ID       == 1
REG_TEMP_HIGH_LIMIT == 2
REG_TEMP_LOW_LIMIT  == 3
REG_CONTROL         == 4
REG_STATUS          == 5
REG_DATA_TEMP_L     == 6
REG_DATA_TEMP_H     == 7
REG_SOFT_RESET      == 12

Registers ==
    { REG_DEVICE_ID, REG_TEMP_HIGH_LIMIT, REG_TEMP_LOW_LIMIT, REG_CONTROL,
      REG_STATUS, REG_DATA_TEMP_L, REG_DATA_TEMP_H, REG_SOFT_RESET }

Speed == {"Hz25", "Hz50", "Hz100", "Hz200"}

Mode == { [mode |-> "PowerDown"], [mode |-> "SingleConversion"] }
        \cup { [mode |-> "Continuous", speed |-> sp] : sp \in Speed }

\* ------------------------------------------------------------------------
\* the transport (embedded-hal I2c) and what the model draws
\* ------------------------------------------------------------------------

\* What a bus transaction can report: success, or one of the transport's
\* errors (opaque to the driver).
Errors     == {"NoAcknowledge", "ArbitrationLoss"}
BusResults == {"Ok"} \cup Errors

\* A Celsius argument as the caller writes it: the decimal literal n/d, or
\* the sum of two literals n/d + plus/1000 (as in the tests' -39.04 + 0.001).
Lit(n, d)          == [n |-> n, d |-> d, plus |-> 0]
LitPlus(n, d, p)   == [n |-> n, d |-> d, plus |-> p]
CelsiusOf(a) ==
    IF a.plus = 0 THEN F32FromDec(a.n, a.d)
    ELSE F32Add(F32FromDec(a.n, a.d), F32FromDec(a.plus, 1000))

\* Arguments of the limit operations in the driver's state machine
\* (thousandths of a degree): below the range, inside it, above it.
CelsiusSamples ==
    { Lit(-100000, 1000), Lit(25000, 1000), Lit(200000, 1000) }

\* 16-bit contents of the temperature data registers the device may hold.
TempSamples == {255, 256}

DeviceIds    == {160, 0}
LimitResets  == {255}

VARIABLES
    address,    \* Sensor.address
    i2c,        \* the device's registers as the transport addresses them
    pc,         \* "idle", or where read_temperature stands
    low,        \* read_temperature's local `low`
    trace,      \* the bus transactions of the current (or last) call
    ret,        \* what the last call returned
    arg,        \* the Celsius argument of the current (or last) call, if any
    snap        \* the data registers when read_temperature read low / high

vars == <<address, i2c, pc, low, trace, ret, arg, snap>>

Load(mem, a) == IF a \in DOMAIN mem THEN mem[a] ELSE 0
Store(mem, a, b) == [x \in DOMAIN mem \cup {a} |-> IF x = a THEN b ELSE mem[x]]

\* The 16-bit value in the device's temperature data registers.
DataRegisters(mem, base) ==
    256 * Load(mem, base + REG_DATA_TEMP_H) + Load(mem, base + REG_DATA_TEMP_L)

Tx(kind, addr, data, res) ==
    [kind |-> kind, addr |-> addr, data |-> data, res |-> res]

NoTemp == F32Zero
NoArg  == Lit(0, 1)
NoSnap == [low |-> 0, high |-> 0]
Result(op, status, byte, temp, err) ==
    [op |-> op, status |-> status, byte |-> byte, temp |-> temp, err |-> err]
Ok(op, byte, temp) == Result(op, "Ok", byte, temp, "none")
Err(op, e)         == Result(op, "Err", 0, NoTemp, e)
Running(op)        == Result(op, "Running", 0, NoTemp, "none")
Panicked(op)       == Result(op, "Panic", 0, NoTemp, "none")

\* Variant: the base address shifted into an 8-bit bus address before the
\* offset is added.
RegisterAddress_Shifted(reg) == 2 * address + reg

\* self.address + REG_x
RegisterAddress(reg) == address + reg

\* ------------------------------------------------------------------------
\* lib.rs: conversion
\* ------------------------------------------------------------------------

\* The literals 0.64, 63.0 and 0.01 as the compiler rounds them to f32.
LitScale  == F32FromDec(64, 100)
LitOffset == F32FromInt(63)
LitCenti  == F32FromDec(1, 100)

\* (celcius / 0.64) + 63.0
EncodedValue(celcius) == F32Add(F32Div(celcius, LitScale), LitOffset)

\* ((celcius / 0.64) + 63.0) as u8
temperature_to_reg_value(celcius) == F32ToU8(EncodedValue(celcius))

\* Variant: the two bytes composed in the wrong order.
Composite_Swapped(high, lo) == BitOr(Shl16(lo, 8), high)

\* (high << 8 | low) as f32 * 0.01
Composite(high, lo) == BitOr(Shl16(high, 8), lo)
Decode(high, lo) == F32Mul(F32FromInt(Composite(high, lo)), LitCenti)

\* ------------------------------------------------------------------------
\* lib.rs: impl Sensor
\* ------------------------------------------------------------------------

\* Sensor::new: no I/O.  The device registers hold whatever they hold.
InitRegisters(base) ==
    { [a \in {base + r : r \in Registers} |->
          CASE a = base + REG_DEVICE_ID       -> id
            [] a = base + REG_TEMP_HIGH_LIMIT -> hl
            [] a = base + REG_TEMP_LOW_LIMIT  -> ll
            [] a = base + REG_DATA_TEMP_L     -> t % 256
            [] a = base + REG_DATA_TEMP_H     -> t \div 256
            [] OTHER                          -> 0]
      : id \in DeviceIds, hl \in LimitResets, ll \in LimitResets,
        t \in TempSamples }

new(select) ==
    /\ address = AddressSelect[select]
    /\ i2c \in InitRegisters(AddressSelect[select])
    /\ pc = "idle"
    /\ low = 0
    /\ trace = <<>>
    /\ ret = Result("new", "Ok", 0, NoTemp, "none")
    /\ arg = NoArg
    /\ snap = NoSnap

Init == \E select \in {"High", "Low"} : new(select)

\* One write transaction of one byte, and the call returns its result.
WriteAndReturn(op, reg, byte, res) ==
    /\ pc = "idle"
    /\ trace' = << Tx("write", RegisterAddress(reg), <<byte>>, res) >>
    /\ i2c' = IF res = "Ok" THEN Store(i2c, RegisterAddress(reg), byte) ELSE i2c
    /\ ret' = IF res = "Ok" THEN Ok(op, 0, NoTemp) ELSE Err(op, res)
    /\ snap' = NoSnap
    /\ UNCHANGED <<address, pc, low>>

read_device_id(res) ==
    /\ pc = "idle"
    /\ LET a   == RegisterAddress(REG_DEVICE_ID)
           buf == IF res = "Ok" THEN << Load(i2c, a) >> ELSE << 0 >>
       IN  /\ trace' = << Tx("read", a, buf, res) >>
           /\ ret' = IF res = "Ok" THEN Ok("read_device_id", buf[1], NoTemp)
                                   ELSE Err("read_device_id", res)
    /\ arg' = NoArg
    /\ snap' = NoSnap
    /\ UNCHANGED <<address, i2c, pc, low>>

disable_temperature_high_limit(res) ==
    /\ WriteAndReturn("disable_temperature_high_limit", REG_TEMP_HIGH_LIMIT, 0, res)
    /\ arg' = NoArg

disable_temperature_low_limit(res) ==
    /\ WriteAndReturn("disable_temperature_low_limit", REG_TEMP_LOW_LIMIT, 0, res)
    /\ arg' = NoArg

temperature_high_limit(celcius, res) ==
    /\ LET value == temperature_to_reg_value(CelsiusOf(celcius))
       IN  WriteAndReturn("temperature_high_limit", REG_TEMP_HIGH_LIMIT, value, res)
    /\ arg' = celcius

\* Variant: the low limit written to the high limit's register.
temperature_low_limit_WrongRegister(celcius, res) ==
    /\ LET value == temperature_to_reg_value(CelsiusOf(celcius))
       IN  WriteAndReturn("temperature_low_limit", REG_TEMP_HIGH_LIMIT, value, res)
    /\ arg' = celcius

temperature_low_limit(celcius, res) ==
    /\ LET value == temperature_to_reg_value(CelsiusOf(celcius))
       IN  WriteAndReturn("temperature_low_limit", REG_TEMP_LOW_LIMIT, value, res)
    /\ arg' = celcius

\* todo!() panics before anything else runs; the match and the write that
\* follow it are unreachable.
configure(mode) ==
    /\ pc = "idle"
    /\ mode \in Mode
    /\ trace' = <<>>
    /\ ret' = Panicked("configure")
    /\ arg' = NoArg
    /\ snap' = NoSnap
    /\ UNCHANGED <<address, i2c, pc, low>>

\* Variant: a failed read of the low byte does not end the call.
read_temperature_low_NoAbort(res) ==
    /\ pc = "idle"
    /\ LET a   == RegisterAddress(REG_DATA_TEMP_L)
           buf == IF res = "Ok" THEN << Load(i2c, a) >> ELSE << 0 >>
       IN  /\ trace' = << Tx("read", a, buf, res) >>
           /\ low' = buf[1]
           /\ pc' = "read_temperature_high"
           /\ ret' = Running("read_temperature")
    /\ snap' = [low |-> DataRegisters(i2c, address), high |-> 0]
    /\ arg' = NoArg
    /\ UNCHANGED <<address, i2c>>

\* read_temperature, up to and including the read of the low byte.
read_temperature_low(res) ==
    /\ pc = "idle"
    /\ LET a   == RegisterAddress(REG_DATA_TEMP_L)
           buf == IF res = "Ok" THEN << Load(i2c, a) >> ELSE << 0 >>
       IN  /\ trace' = << Tx("read", a, buf, res) >>
           /\ IF res = "Ok"
              THEN /\ low' = buf[1]
                   /\ pc' = "read_temperature_high"
                   /\ ret' = Running("read_temperature")
              ELSE /\ low' = low
                   /\ pc' = "idle"
                   /\ ret' = Err("read_temperature", res)
    /\ snap' = [low |-> DataRegisters(i2c, address), high |-> 0]
    /\ arg' = NoArg
    /\ UNCHANGED <<address, i2c>>

\* Variant: the high byte is the one the device held when the low byte was
\* read (both bytes latched by one burst).
read_temperature_high_Latched(res) ==
    /\ pc = "read_temperature_high"
    /\ LET a   == RegisterAddress(REG_DATA_TEMP_H)
           buf == IF res = "Ok" THEN << snap.low \div 256 >> ELSE << 0 >>
       IN  /\ trace' = Append(trace, Tx("read", a, buf, res))
           /\ ret' = IF res = "Ok"
                     THEN Ok("read_temperature", 0, Decode(buf[1], low))
                     ELSE Err("read_temperature", res)
    /\ pc' = "idle"
    /\ snap' = [snap EXCEPT !.high = DataRegisters(i2c, address)]
    /\ UNCHANGED <<address, i2c, low, arg>>

\* read_temperature, from the read of the high byte to the return.
read_temperature_high(res) ==
    /\ pc = "read_temperature_high"
    /\ LET a   == RegisterAddress(REG_DATA_TEMP_H)
           buf == IF res = "Ok" THEN << Load(i2c, a) >> ELSE << 0 >>
       IN  /\ trace' = Append(trace, Tx("read", a, buf, res))
           /\ ret' = IF res = "Ok"
                     THEN Ok("read_temperature", 0, Decode(buf[1], low))
                     ELSE Err("read_temperature", res)
    /\ pc' = "idle"
    /\ snap' = [snap EXCEPT !.high = DataRegisters(i2c, address)]
    /\ UNCHANGED <<address, i2c, low, arg>>

reset(res) ==
    /\ WriteAndReturn("reset", REG_SOFT_RESET, Shl16(1, 1), res)
    /\ arg' = NoArg

\* The device finishes a conversion and stores it in its data registers; the
\* driver does not hold the bus between read_temperature's two reads.
DeviceConversion(t) ==
    /\ DataRegisters(i2c, address) # t
    /\ i2c' = Store(Store(i2c, address + REG_DATA_TEMP_L, t % 256),
                    address + REG_DATA_TEMP_H, t \div 256)
    /\ UNCHANGED <<address, pc, low, trace, ret, arg, snap>>

Next ==
    \/ \E res \in BusResults : read_device_id(res)
    \/ \E res \in BusResults : disable_temperature_high_limit(res)
    \/ \E res \in BusResults : disable_temperature_low_limit(res)
    \/ \E c \in CelsiusSamples, res \in BusResults : temperature_high_limit(c, res)
    \/ \E c \in CelsiusSamples, res \in BusResults : temperature_low_limit(c, res)
    \/ \E mode \in Mode : configure(mode)
    \/ \E res \in BusResults : read_temperature_low(res)
    \/ \E res \in BusResults : read_temperature_high(res)
    \/ \E res \in BusResults : reset(res)
    \/ \E t \in TempSamples : DeviceConversion(t)

Spec == Init /\ [][Next]_vars

\* ------------------------------------------------------------------------
\* read_temperature over every pair of data bytes
\* ------------------------------------------------------------------------

DataBytes == 0 .. 255

InitDec ==
    /\ \E lo \in DataBytes, hi \in DataBytes :
          i2c = [a \in {AddressSelect.High + r : r \in Registers} |->
                    CASE a = AddressSelect.High + REG_DATA_TEMP_L -> lo
                      [] a = AddressSelect.High + REG_DATA_TEMP_H -> hi
                      [] OTHER -> 0]
    /\ address = AddressSelect.High
    /\ pc = "idle"
    /\ low = 0
    /\ trace = <<>>
    /\ ret = Result("new", "Ok", 0, NoTemp, "none")
    /\ arg = NoArg
    /\ snap = NoSnap

NextDec ==
    \/ read_temperature_low("Ok")
    \/ read_temperature_high("Ok")

SpecDec == InitDec /\ [][NextDec]_vars

\* ------------------------------------------------------------------------
\* the limit operations over a range of Celsius arguments
\* ------------------------------------------------------------------------

\* The documented range of the device, in thousandths of a degree, and the
\* table of the reference manual: register value k stands for
\* (k - 63) * 0.64 degrees.
RangeMin == -39680
RangeMax == 122880
Boundary(k) == 640 * k - 40320

DegreesBelow == 30      \* how far below the range the grid of arguments goes
DegreesAbove == 30      \* how far above
GridStep     == 10      \* the grid's step, in thousandths of a degree
CellsBelow   == 3       \* table cells below register value 0 that are probed
CellsAbove   == 3       \* table cells above register value 255

GridArgs ==
    { Lit(n, 1000) : n \in { x \in (RangeMin - 1000 * DegreesBelow) ..
                                   (RangeMax + 1000 * DegreesAbove) :
                             x % GridStep = 0 } }

Cells == (0 - CellsBelow) .. (256 + CellsAbove)

\* Arguments at, and a thousandth or a millionth of a degree around, every
\* boundary of the table, and the boundary + 0.001 written as a sum.
BoundaryArgs ==
    UNION { { Lit(Boundary(k) - 1, 1000), Lit(Boundary(k), 1000),
              Lit(Boundary(k) + 1, 1000), LitPlus(Boundary(k), 1000, 1),
              Lit(1000 * Boundary(k) - 1, 1000000),
              Lit(1000 * Boundary(k) + 1, 1000000) } : k \in Cells }

\* Arguments far outside the range (degrees): absolute zero and beyond.
FarArgs ==
    { Lit(d * 1000, 1000) : d \in {-1000000, -100000, -1000, -274, 1000, 100000, 1000000} }

EncArgs == GridArgs \cup BoundaryArgs \cup FarArgs

InitEnc ==
    /\ arg \in EncArgs
    /\ address = AddressSelect.Low
    /\ i2c \in InitRegisters(AddressSelect.Low)
    /\ Load(i2c, address + REG_DEVICE_ID) = 160
    /\ DataRegisters(i2c, address) = 256
    /\ pc = "idle"
    /\ low = 0
    /\ trace = <<>>
    /\ ret = Result("new", "Ok", 0, NoTemp, "none")
    /\ snap = NoSnap

\* Each argument is applied once, by either limit operation.
NextEnc ==
    \/ trace = <<>> /\ temperature_high_limit(arg, "Ok")
    \/ trace = <<>> /\ temperature_low_limit(arg, "Ok")

SpecEnc == InitEnc /\ [][NextEnc]_vars

\* ------------------------------------------------------------------------
\* properties of the driver's state machine (Spec)
\* ------------------------------------------------------------------------

ThresholdHighOps == {"disable_temperature_high_limit", "temperature_high_limit"}
ThresholdLowOps  == {"disable_temperature_low_limit", "temperature_low_limit"}
ThresholdOps     == ThresholdHighOps \cup ThresholdLowOps

\* The register offset the i-th transaction of operation op is documented
\* to address (the register map of the reference manual).
DocumentedOffset(op, i) ==
    CASE op = "read_device_id"                 -> 1
      [] op \in ThresholdHighOps               -> 2
      [] op \in ThresholdLowOps                -> 3
      [] op = "configure"                      -> 4
      [] op = "read_temperature" /\ i = 1      -> 6
      [] op = "read_temperature" /\ i = 2      -> 7
      [] op = "reset"                          -> 12
      [] OTHER                                 -> -1

\* C1: for both address selects and every operation, every bus transaction
\* is addressed to base address + the offset of the operation's register,
\* the sum fits in a byte, and no step changes the stored base address.
C1_AddressIsBasePlusOffset ==
    /\ [](/\ address \in {56, 63}
          /\ \A i \in 1 .. Len(trace) :
                /\ DocumentedOffset(ret.op, i) > 0
                /\ trace[i].addr = address + DocumentedOffset(ret.op, i)
                /\ trace[i].addr <= 255)
    /\ [][address' = address]_vars

C1_Witness ==
    /\ address = 63
    /\ ret.op = "reset"
    /\ Len(trace) = 1
    /\ trace[1].addr = 75

\* C2: read_temperature reads the low byte (offset 6) first and the high
\* byte (offset 7) second, one byte each; a failed low read ends the call
\* with that error and no high read; a failed high read ends it with that
\* error; there is no other transaction.
C2_LowThenHigh ==
    /\ pc = "read_temperature_high" =>
          /\ ret = Running("read_temperature")
          /\ Len(trace) = 1
          /\ trace[1].res = "Ok"
    /\ ret.op = "read_temperature" =>
          /\ Len(trace) \in {1, 2}
          /\ trace[1].kind = "read"
          /\ trace[1].addr = address + 6
          /\ Len(trace[1].data) = 1
          /\ trace[1].res # "Ok" =>
                /\ Len(trace) = 1
                /\ pc = "idle"
                /\ ret.status = "Err"
                /\ ret.err = trace[1].res
          /\ (Len(trace) = 1 /\ trace[1].res = "Ok") =>
                /\ pc = "read_temperature_high"
                /\ ret.status = "Running"
          /\ Len(trace) = 2 =>
                /\ trace[1].res = "Ok"
                /\ trace[2].kind = "read"
                /\ trace[2].addr = address + 7
                /\ Len(trace[2].data) = 1
                /\ pc = "idle"
                /\ IF trace[2].res = "Ok"
                   THEN ret.status = "Ok"
                   ELSE ret.status = "Err" /\ ret.err = trace[2].res

C2_Witness ==
    /\ ret.op = "read_temperature"
    /\ ret.status = "Err"
    /\ Len(trace) = 1
    /\ trace[1].addr = address + 6
    /\ trace[1].res = "ArbitrationLoss"
    /\ pc = "idle"

C6_ConfigureWritesZero ==
    ret.op = "configure" =>
        /\ Len(trace) = 1
        /\ trace[1].kind = "write"
        /\ trace[1].addr = address + 4
        /\ trace[1].data = <<0>>
        /\ ret.status = (IF trace[1].res = "Ok" THEN "Ok" ELSE "Err")

\* What error propagation means for a call that has returned: Ok after
\* transactions that all succeeded, or Err with the error of the call's last
\* transaction, which is its only failed one.
PropagatesTransportResult ==
    /\ ret.status \in {"Ok", "Err"}
    /\ Len(trace) >= 1
    /\ \A i \in 1 .. Len(trace) - 1 : trace[i].res = "Ok"
    /\ ret.status = "Ok" =>
          /\ trace[Len(trace)].res = "Ok"
          /\ ret.err = "none"
    /\ ret.status = "Err" =>
          /\ trace[Len(trace)].res \in Errors
          /\ ret.err = trace[Len(trace)].res
    /\ (ret.op = "read_device_id" /\ ret.status = "Ok") =>
          /\ trace[1].addr = address + 1
          /\ ret.byte = trace[1].data[1]
          /\ ret.byte = Load(i2c, address + 1)

Returned == ret.op # "new" /\ ret.status # "Running"

\* C8: every fallible operation either succeeds fully or returns the first
\* transport error unchanged, with no retry and no transaction after the
\* failure, and never fails on its own; read_device_id returns the byte read
\* at offset 1.
C8_OnlyTransportErrors == Returned => PropagatesTransportResult

\* The same for every operation but configure.
ErrorsPropagateExceptConfigure ==
    (Returned /\ ret.op # "configure") => PropagatesTransportResult

\* C9: the two bytes of read_temperature come from two separate reads: the
\* low byte is what the data registers held at the first read, the high
\* byte what they held at the second, whatever happened in between, and the
\* call succeeds without noticing a change.
C9_BytesFromSeparateReads ==
    (ret.op = "read_temperature" /\ ret.status = "Ok") =>
        /\ Len(trace) = 2
        /\ trace[1].data[1] = snap.low % 256
        /\ trace[2].data[1] = snap.high \div 256
        /\ ret.temp = F32Mul(F32FromInt(256 * (snap.high \div 256) + (snap.low % 256)),
                             F32FromDec(1, 100))

\* A torn read: the device stored 0x0100 over 0x00FF between the two reads,
\* and the call returned 0x01FF hundredths, neither 2.55 nor 2.56.
C9_Witness ==
    /\ ret.op = "read_temperature"
    /\ ret.status = "Ok"
    /\ snap = [low |-> 255, high |-> 256]
    /\ ret.temp = F32Mul(F32FromInt(511), F32FromDec(1, 100))
    /\ ret.temp # F32Mul(F32FromInt(255), F32FromDec(1, 100))
    /\ ret.temp # F32Mul(F32FromInt(256), F32FromDec(1, 100))

\* ------------------------------------------------------------------------
\* properties of the conversions (SpecDec, SpecEnc)
\* ------------------------------------------------------------------------

\* |x - n/100| < 0.005 for a binary32 x >= 0 and an integer 0 <= n < 2^16:
\* x, rounded to hundredths, is exactly n hundredths.
IsHundredths(x, n) ==
    IF x.m = 0 THEN n = 0
    ELSE /\ x.s = 0
         /\ x.e < 0
         /\ -x.e <= 30
         /\ LET p == 2^(-x.e)
            IN  /\ n <= 2147483647 \div p
                /\ 100 * x.m - n * p < p \div 2
                /\ n * p - 100 * x.m < p \div 2

\* x <= 655.35 for a binary32 x >= 0.
AtMostFullScale(x) ==
    \/ x.m = 0
    \/ /\ x.s = 0
       /\ x.e <= -14
       /\ x.e = -14 => 100 * x.m <= 65535 * 2^14

\* C3: when both reads succeed with bytes low and high, read_temperature
\* returns (high << 8 | low) * 0.01: 256 * high + low hundredths of a degree
\* (to within half a hundredth, the product being a binary32), unsigned, so
\* between 0.00 and 655.35; low = 0x00, high = 0x01 gives 2.56.
C3_DecodesHundredths ==
    (ret.op = "read_temperature" /\ ret.status = "Ok") =>
        LET lo == trace[1].data[1]
            hi == trace[2].data[1]
        IN  /\ lo = Load(i2c, address + 6)
            /\ hi = Load(i2c, address + 7)
            /\ lo \in 0 .. 255
            /\ hi \in 0 .. 255
            /\ IsHundredths(ret.temp, 256 * hi + lo)
            /\ ret.temp.s = 0
            /\ AtMostFullScale(ret.temp)
            /\ (lo = 0 /\ hi = 1) => ret.temp = F32FromDec(256, 100)

C3_Witness ==
    /\ ret.op = "read_temperature"
    /\ ret.status = "Ok"
    /\ trace[1].data = <<0>>
    /\ trace[2].data = <<1>>
    /\ ret.temp = F32FromDec(256, 100)

\* The Celsius argument lies in the documented range -39.68 .. 122.88.
InRange(a) ==
    IF a.d = 1000
    THEN RangeMin <= a.n + a.plus /\ a.n + a.plus <= RangeMax
    ELSE a.d = 1000000 /\ 1000 * RangeMin <= a.n /\ a.n <= 1000 * RangeMax

\* b <= x < b + 1 for a binary32 x >= 0 and an integer 0 <= b <= 255:
\* b is x truncated toward zero.
IsTruncationOf(b, x) ==
    IF x.m = 0 THEN b = 0
    ELSE /\ x.s = 0
         /\ x.e < 0
         /\ IF -x.e >= 24 THEN b = 0
            ELSE IF -x.e = 23 THEN b = 1
            ELSE b * 2^(-x.e) <= x.m /\ x.m < (b + 1) * 2^(-x.e)

LimitCallDone ==
    /\ ret.op \in {"temperature_high_limit", "temperature_low_limit"}
    /\ ret.status = "Ok"

Written == trace[1].data[1]

\* The register value the reference table gives a decimal argument of n
\* thousandths of a degree, n >= -40320: (n/1000 / 0.64 + 63) truncated.
TableValue(n) == (n + 40320) \div 640

\* C4: for every argument in the documented range the byte is the f32 value
\* of (t / 0.64) + 63 truncated toward zero, never rounded to nearest or up:
\* it is the table's value for every decimal argument (to a thousandth of a
\* degree) that is not itself a boundary of the table, never above it at a
\* boundary, the lower value a thousandth below a boundary, and the eight
\* reference points come out as listed.
C4_EncodesByTruncation ==
    (LimitCallDone /\ InRange(arg)) =>
        /\ Written \in 0 .. 255
        /\ IsTruncationOf(Written, EncodedValue(CelsiusOf(arg)))
        /\ (arg.d = 1000 /\ arg.plus = 0) =>
              /\ Written <= TableValue(arg.n)
              /\ (arg.n + 40320) % 640 # 0   => Written = TableValue(arg.n)
              /\ (arg.n + 40320) % 640 = 639 => Written = TableValue(arg.n + 1) - 1
        /\ (arg.d = 1000 /\ arg.plus = 1 /\ (arg.n + 40320) % 640 = 0) =>
              Written = TableValue(arg.n)
        /\ arg = Lit(-39680, 1000)        => Written = 1
        /\ arg = LitPlus(-39040, 1000, 1) => Written = 2
        /\ arg = LitPlus(-38400, 1000, 1) => Written = 3
        /\ arg = Lit(-640, 1000)          => Written = 62
        /\ arg = Lit(0, 1000)             => Written = 63
        /\ arg = Lit(640, 1000)           => Written = 64
        /\ arg = Lit(122240, 1000)        => Written = 254
        /\ arg = Lit(122880, 1000)        => Written = 255

C4_Witness ==
    /\ LimitCallDone
    /\ ret.op = "temperature_high_limit"
    /\ arg = Lit(639, 1000)
    /\ trace = << Tx("write", address + 2, <<63>>, "Ok") >>

\* The integer part of x, as a signed integer (|x| < 2^23).
SignedTrunc(x) ==
    IF x.m = 0 \/ -x.e >= 24 THEN 0
    ELSE IF x.s = 1 THEN 0 - (x.m \div 2^(-x.e)) ELSE x.m \div 2^(-x.e)

Representable(x) == x.m = 0 \/ (x.e < 0 /\ x.e >= -30)

OutOfByteRange(x) == SignedTrunc(x) < 0 \/ SignedTrunc(x) > 255

\* C7: for an argument whose truncated (celsius / 0.64) + 63 lies outside
\* 0..255 the byte written is that integer modulo 256, and the limit
\* operation reports no error.
C7_WrapsModulo256 ==
    (LimitCallDone /\ Representable(EncodedValue(CelsiusOf(arg)))
                   /\ OutOfByteRange(EncodedValue(CelsiusOf(arg)))) =>
        /\ Written = SignedTrunc(EncodedValue(CelsiusOf(arg))) % 256
        /\ ret.status = "Ok"

\* C7 as amended: for such an argument the byte written is the integer
\* clamped to the byte range, 0 below it and 255 above it, with no
\* validation: the limit operation issues its one write and returns the
\* result of the bus.
C7_Saturates ==
    (LimitCallDone /\ Representable(EncodedValue(CelsiusOf(arg)))
                   /\ OutOfByteRange(EncodedValue(CelsiusOf(arg)))) =>
        /\ Written = (IF SignedTrunc(EncodedValue(CelsiusOf(arg))) < 0 THEN 0 ELSE 255)
        /\ (arg.d = 1000 /\ arg.plus = 0 /\ arg.n <= -40961) => Written = 0
        /\ (arg.d = 1000 /\ arg.plus = 0 /\ arg.n >= 123521) => Written = 255
        /\ Len(trace) = 1
        /\ trace[1].res = "Ok"
        /\ ret.status = "Ok"
        /\ Load(i2c, trace[1].addr) = Written

C7_Witness ==
    /\ LimitCallDone
    /\ arg = Lit(150000, 1000)
    /\ SignedTrunc(EncodedValue(CelsiusOf(arg))) = 297
    /\ Written = 255

\* x < 1 for a binary32 x.
BelowOne(x) == x.m = 0 \/ x.s = 1 \/ (x.e < 0 /\ -x.e >= 24)

\* C10: the byte written by a limit operation is the disable sentinel 0x00
\* exactly when (c / 0.64) + 63 < 1, which for a decimal argument (to a
\* thousandth of a degree) is exactly when c is below -39.68: in the
\* documented range the byte is in 1..255, and below it, however far, the
\* transaction is the one the disable operation of that register issues.
C10_ZeroIffBelowRange ==
    LimitCallDone =>
        /\ Written = 0 <=> BelowOne(EncodedValue(CelsiusOf(arg)))
        /\ (arg.d = 1000 /\ arg.plus = 0) => (Written = 0 <=> arg.n < RangeMin)
        /\ InRange(arg) => Written \in 1 .. 255
        /\ Written = 0 =>
              trace = << Tx("write",
                            address + (IF ret.op = "temperature_high_limit" THEN 2 ELSE 3),
                            <<0>>, "Ok") >>

C10_Witness ==
    /\ LimitCallDone
    /\ ret.op = "temperature_low_limit"
    /\ arg = Lit(-1000000000, 1000)
    /\ trace = << Tx("write", address + 3, <<0>>, "Ok") >>
    /\ Load(i2c, address + 3) = 0

=============================================================================
